---- MODULE Spec2Model ----
(***************************************************************************)
(* Job lifecycle and claim-based scheduling of src/main.py: the jobs       *)
(* table, create_mix_job, process_one_mix_job (select, conditional claim,  *)
(* audit, finalize), mix_worker_loop with its cancellation, and the        *)
(* process-next endpoint.  Worker loops and process-next requests may run  *)
(* in different processes, so every store call is a step of its own.       *)
(***************************************************************************)
EXTENDS Integers, Sequences, FiniteSets, TLC

\* ---------------------------------------------------------------- bounds
MaxJobs == 2            \* rows create_mix_job may insert

Workers == {"w1"}               \* mix_worker_loop tasks, one per process
Callers == {"c1"}               \* clients of POST /mix-intelligence/process-next
Procs == Workers \cup Callers

Priorities == {5, 10}           \* request.priority values tried (0..100 allowed)
Contexts == {"LOOP"}
MaxBpm == 400                   \* tempo estimates tried: 0..MaxBpm
Sizes == {0, 1}                 \* request.size_bytes values tried
Durations == {0, 1, 601}        \* request.duration_seconds values tried

\* ------------------------------------------------------------- constants
NoId == -1                      \* job_id = None
EmptyId == -2                   \* job_id = "", as in process-next?job_id=
NoTime == -1                    \* a null timestamp column
Null == <<>>                    \* a null JSON column / no row
NoMessage == "null"             \* error_message = None
OtherId == 0                    \* id of the row of another job type
JobIds == 1..MaxJobs
TargetIds == {NoId, EmptyId, OtherId} \cup JobIds

\* if job_id: None and the empty string are falsy
Truthy(id) == id \notin {NoId, EmptyId}

VARIABLES
    jobs,       \* the jobs table: id -> row
    clock,      \* what now_utc_iso() returns
    pc,         \* where each worker loop / request is
    job_id,     \* process_one_mix_job's argument
    job,        \* rows[0] of the select, <<row>> or Null
    audit,      \* the audit built after the claim, or Null
    cancelled,  \* task.cancel() was called on the worker task
    response,   \* the latest process-next response a caller received
    claims,     \* per row: number of claim updates that changed it
    built,      \* per row: the audits built for it
    finals,     \* per row: number of 'completed' writes
    created,    \* the latest response of POST /mix-intelligence/create
    bpm         \* src/api.py: the tempo computation of analyze_file

jobVars == <<jobs, clock, pc, job_id, job, audit, cancelled, response,
             claims, built, finals, created>>

vars == <<jobVars, bpm>>

\* ------------------------------------------------------------ the store
OtherRow ==
    [id |-> OtherId, type |-> "OTHER", status |-> "queued", context |-> "FULL_MIX",
     progress |-> 0, priority |-> 0, stage |-> "created",
     size_bytes |-> 1, duration_seconds |-> 1,
     created_at |-> 0, started_at |-> NoTime, completed_at |-> NoTime,
     audit_results |-> Null, error_message |-> NoMessage]

ValidRequestAnyDuration(req) ==
    /\ req.size_bytes >= 1
    /\ req.priority >= 0 /\ req.priority <= 100

\* MixJobRequest's field constraints
ValidRequest(req) ==
    /\ req.size_bytes >= 1
    /\ req.duration_seconds >= 1 /\ req.duration_seconds <= 600
    /\ req.priority >= 0 /\ req.priority <= 100

Requests ==
    [context : Contexts, priority : Priorities,
     size_bytes : Sizes, duration_seconds : Durations]

NewRowStarted(id, req, now) ==
    [id |-> id, type |-> "MIX_INTELLIGENCE", status |-> "queued",
     context |-> req.context, progress |-> 0, priority |-> req.priority,
     stage |-> "created",
     size_bytes |-> req.size_bytes, duration_seconds |-> req.duration_seconds,
     created_at |-> now, started_at |-> now, completed_at |-> NoTime,
     audit_results |-> Null, error_message |-> NoMessage]

\* job_data of create_mix_job, with the columns the table defaults
NewRow(id, req, now) ==
    [id |-> id, type |-> "MIX_INTELLIGENCE", status |-> "queued",
     context |-> req.context, progress |-> 0, priority |-> req.priority,
     stage |-> "created",
     size_bytes |-> req.size_bytes, duration_seconds |-> req.duration_seconds,
     created_at |-> now, started_at |-> NoTime, completed_at |-> NoTime,
     audit_results |-> Null, error_message |-> NoMessage]

\* uuid.uuid4(): an id no row has
FreshId(tbl) == CHOOSE i \in JobIds : i \notin DOMAIN tbl /\ \A k \in JobIds : k < i => k \in DOMAIN tbl

\* the select without its type filter
QueuedRowsAnyType(tbl) ==
    {j \in DOMAIN tbl : tbl[j].status = "queued"}

\* .eq("type", "MIX_INTELLIGENCE").eq("status", "queued")
QueuedRows(tbl) ==
    {j \in DOMAIN tbl : tbl[j].type = "MIX_INTELLIGENCE" /\ tbl[j].status = "queued"}

\* the select ordered by priority descending, then created_at ascending
SelectRowsByPriority(tbl, id) ==
    IF Truthy(id)
    THEN {j \in QueuedRows(tbl) : j = id}
    ELSE {j \in QueuedRows(tbl) :
            \A k \in QueuedRows(tbl) :
               \/ tbl[j].priority > tbl[k].priority
               \/ /\ tbl[j].priority = tbl[k].priority
                  /\ tbl[j].created_at <= tbl[k].created_at}

\* the rows q.execute() may return first: the given id if queued, else a queued
\* row of least created_at (the store breaks equal created_at as it likes)
SelectRows(tbl, id) ==
    IF Truthy(id)
    THEN {j \in QueuedRows(tbl) : j = id}
    ELSE {j \in QueuedRows(tbl) :
            \A k \in QueuedRows(tbl) : tbl[j].created_at <= tbl[k].created_at}

\* the claim update filtered on the id alone
ClaimMatchesNoFilter(tbl, jid) ==
    jid \in DOMAIN tbl

\* the claim update also taking a row that is being processed
ClaimMatchesUnfinished(tbl, jid) ==
    jid \in DOMAIN tbl /\ tbl[jid].status \in {"queued", "processing"}

\* the claim update refusing only a row that is being processed
ClaimMatchesNotProcessing(tbl, jid) ==
    jid \in DOMAIN tbl /\ tbl[jid].status # "processing"

\* the rows the claim update matches: .eq("id", jid).eq("status", "queued")
ClaimMatches(tbl, jid) ==
    jid \in DOMAIN tbl /\ tbl[jid].status = "queued"

ClaimRowNoStart(row, now) ==
    [row EXCEPT !.status = "processing",
                !.stage = "analyzing", !.progress = 5,
                !.error_message = NoMessage]

\* the claim update's new column values
ClaimRow(row, now) ==
    [row EXCEPT !.status = "processing", !.started_at = now,
                !.stage = "analyzing", !.progress = 5,
                !.error_message = NoMessage]

\* build_audit_results(context): the parts that vary
build_audit_results(context, now) ==
    <<[context |-> context, generated_at |-> now,
       what_to_fix_first |-> IF context = "LOOP" THEN "loop" ELSE "common"]>>

\* the finalize update without the audit
DoneRowNoAudit(row, a, now) ==
    [row EXCEPT !.status = "completed", !.completed_at = now,
                !.stage = "done", !.progress = 100]

\* the finalize update's new column values
DoneRow(row, a, now) ==
    [row EXCEPT !.status = "completed", !.completed_at = now,
                !.stage = "done", !.progress = 100,
                !.audit_results = a]

\* get_mix_result(job_id)
get_mix_result(tbl, id) ==
    IF id \in DOMAIN tbl
    THEN [code |-> 200, job |-> <<tbl[id]>>]
    ELSE [code |-> 404, job |-> Null]

\* --------------------------------------------------------------- returns
\* where control goes when process_one_mix_job returns None / a row / raises
AfterNoneEndsLoop(p) == IF p \in Workers THEN "exited" ELSE "idle"
AfterNoneNoSleep(p) == IF p \in Workers THEN "select" ELSE "idle"
AfterNone(p) == IF p \in Workers THEN "pollsleep" ELSE "idle"
AfterRow(p) == IF p \in Workers THEN "select" ELSE "idle"
AfterRaiseEndsLoop(p) == IF p \in Workers THEN "exited" ELSE "idle"
AfterRaise(p) == IF p \in Workers THEN "backoff" ELSE "idle"

ResponseNone == [code |-> 200, processed |-> FALSE, job |-> Null]
ResponseRow(row) == [code |-> 200, processed |-> TRUE, job |-> <<row>>]
ResponseError == [code |-> 500, processed |-> FALSE, job |-> Null]
NoResponse == [code |-> 0, processed |-> FALSE, job |-> Null]

\* the latest request to create_mix_job and its response: {"inserted":
\* res.data}, pydantic's 422, the HTTPException(500) of a failed insert
NotCreated == [code |-> 0, request |-> Null, inserted |-> Null]
CreatedRow(req, row) == [code |-> 200, request |-> <<req>>, inserted |-> <<row>>]
CreateRejected(req) == [code |-> 422, request |-> <<req>>, inserted |-> Null]
CreateFailed(req) == [code |-> 500, request |-> <<req>>, inserted |-> Null]

\* ------------------------------------------------------------ src/api.py
low == 70                       \* normalize_bpm's default low
high == 180                     \* normalize_bpm's default high
step == 5                       \* round_to(bpm_exact, 5)

\* round_to(x, step): int((x / step) + 0.5) * step, for an integer x >= 0
round_to(x, st) == ((2 * x + st) \div (2 * st)) * st

\* the tempo computation of analyze_file: bpm.exact is bpm_exact, and the x of
\* normalize_bpm is the exact binary fraction bpm.n / 2^bpm.k
X(b) == [n |-> b.n, k |-> b.k]
Above(x, bound) == x.n > bound * (2 ^ x.k)
Below(x, bound) == x.n < bound * (2 ^ x.k)

\* analyze_file has not started
BpmIdle == [pc |-> "idle", exact |-> 0, n |-> 0, k |-> 0]

\* normalize_bpm(round_to(bpm_exact, 5)) is entered: x = float(x)
BpmStart(e) == [pc |-> "halving", exact |-> e, n |-> round_to(e, step), k |-> 0]

Respond(p, r) ==
    response' = IF p \in Callers THEN [response EXCEPT ![p] = r] ELSE response

\* the frame of the invocation is gone
Leave(p, to) ==
    /\ pc' = [pc EXCEPT ![p] = to]
    /\ job_id' = [job_id EXCEPT ![p] = NoId]
    /\ job' = [job EXCEPT ![p] = Null]
    /\ audit' = [audit EXCEPT ![p] = Null]

\* ------------------------------------------------------------------ Init
InitJobs ==
    /\ jobs = (OtherId :> OtherRow)
    /\ clock = 1
    /\ pc = [p \in Procs |-> IF p \in Workers THEN "select" ELSE "idle"]
    /\ job_id = [p \in Procs |-> NoId]
    /\ job = [p \in Procs |-> Null]
    /\ audit = [p \in Procs |-> Null]
    /\ cancelled = [w \in Workers |-> FALSE]
    /\ response = [c \in Callers |-> NoResponse]
    /\ claims = [j \in {OtherId} \cup JobIds |-> 0]
    /\ built = [j \in {OtherId} \cup JobIds |-> <<>>]
    /\ finals = [j \in {OtherId} \cup JobIds |-> 0]
    /\ created = NotCreated

Init == InitJobs /\ bpm = BpmIdle

\* analyze_file is called on a file whose tempo estimate is any of 0..MaxBpm
InitBpm == InitJobs /\ bpm \in {BpmStart(e) : e \in 0..MaxBpm}

\* --------------------------------------------------------------- actions
\* POST /mix-intelligence/create: a request pydantic rejects inserts nothing;
\* the store stamps created_at, and no two inserts get the same stamp
create_mix_job(req) ==
    /\ Cardinality(DOMAIN jobs \cap JobIds) < MaxJobs
    /\ IF ValidRequest(req)
       THEN /\ jobs' = (FreshId(jobs) :> NewRow(FreshId(jobs), req, clock)) @@ jobs
            /\ clock' = clock + 1
            /\ created' = CreatedRow(req, NewRow(FreshId(jobs), req, clock))
       ELSE /\ UNCHANGED <<jobs, clock>>
            /\ created' = CreateRejected(req)
    /\ UNCHANGED <<pc, job_id, job, audit, cancelled, response,
                   claims, built, finals, bpm>>

\* POST /mix-intelligence/create: the insert raises or returns no data
CreateStoreError(req) ==
    /\ Cardinality(DOMAIN jobs \cap JobIds) < MaxJobs
    /\ ValidRequest(req)
    /\ created' = CreateFailed(req)
    /\ UNCHANGED <<jobs, clock, pc, job_id, job, audit, cancelled, response,
                   claims, built, finals, bpm>>

\* POST /mix-intelligence/process-next?job_id=...
process_next_mix_job(c, id) ==
    /\ pc[c] = "idle"
    /\ pc' = [pc EXCEPT ![c] = "select"]
    /\ job_id' = [job_id EXCEPT ![c] = id]
    /\ response' = [response EXCEPT ![c] = NoResponse]
    /\ UNCHANGED <<jobs, clock, job, audit, cancelled,
                   claims, built, finals, created, bpm>>

\* process_one_mix_job, the select: no row, return None
SelectNone(p) ==
    /\ pc[p] = "select"
    /\ SelectRows(jobs, job_id[p]) = {}
    /\ Leave(p, AfterNone(p))
    /\ Respond(p, ResponseNone)
    /\ UNCHANGED <<jobs, clock, cancelled, claims, built, finals, created, bpm>>

\* process_one_mix_job, the select: job = rows[0]
SelectRow(p) ==
    /\ pc[p] = "select"
    /\ \E j \in SelectRows(jobs, job_id[p]) :
          job' = [job EXCEPT ![p] = <<jobs[j]>>]
    /\ pc' = [pc EXCEPT ![p] = "claim"]
    /\ UNCHANGED <<jobs, clock, job_id, audit, cancelled, response,
                   claims, built, finals, created, bpm>>

\* process_one_mix_job: the claim update changed the row; the audit is built
\* and the task suspends in asyncio.sleep(0.25)
ClaimWon(p) ==
    /\ pc[p] = "claim"
    /\ LET jid == job[p][1].id
           a == build_audit_results(job[p][1].context, clock) IN
         /\ ClaimMatches(jobs, jid)
         /\ jobs' = [jobs EXCEPT ![jid] = ClaimRow(@, clock)]
         /\ claims' = [claims EXCEPT ![jid] = @ + 1]
         /\ audit' = [audit EXCEPT ![p] = a]
         /\ built' = [built EXCEPT ![jid] = Append(@, a)]
    /\ pc' = [pc EXCEPT ![p] = "sleep025"]
    /\ UNCHANGED <<clock, job_id, job, cancelled, response, finals, created, bpm>>

\* process_one_mix_job: the claim update changed the row and the analysis
\* after it raises (context need not be a string for .upper(), and real
\* analysis may fail); nothing inside process_one_mix_job catches it
ClaimWonAnalyzerRaises(p) ==
    /\ pc[p] = "claim"
    /\ LET jid == job[p][1].id IN
         /\ ClaimMatches(jobs, jid)
         /\ jobs' = [jobs EXCEPT ![jid] = ClaimRow(@, clock)]
         /\ claims' = [claims EXCEPT ![jid] = @ + 1]
    /\ Leave(p, AfterRaise(p))
    /\ Respond(p, ResponseError)
    /\ UNCHANGED <<clock, cancelled, built, finals, created, bpm>>

ClaimLostReportsRace(p) ==
    /\ pc[p] = "claim"
    /\ ~ClaimMatches(jobs, job[p][1].id)
    /\ Leave(p, AfterNone(p))
    /\ Respond(p, [code |-> 409, processed |-> FALSE, job |-> Null])
    /\ UNCHANGED <<jobs, clock, cancelled, claims, built, finals, created, bpm>>

\* process_one_mix_job: the claim update matched no row, return None
ClaimLost(p) ==
    /\ pc[p] = "claim"
    /\ ~ClaimMatches(jobs, job[p][1].id)
    /\ Leave(p, AfterNone(p))
    /\ Respond(p, ResponseNone)
    /\ UNCHANGED <<jobs, clock, cancelled, claims, built, finals, created, bpm>>

\* asyncio.sleep(0.25) returns, time has passed; the finalize update; return
\* its row
Finalize(p) ==
    /\ pc[p] = "sleep025"
    /\ p \in Workers => ~cancelled[p]
    /\ clock' = clock + 1
    /\ LET jid == job[p][1].id
           row == DoneRow(jobs[jid], audit[p], clock + 1) IN
         /\ jobs' = [jobs EXCEPT ![jid] = row]
         /\ finals' = [finals EXCEPT ![jid] = @ + 1]
         /\ Respond(p, ResponseRow(row))
    /\ Leave(p, AfterRow(p))
    /\ UNCHANGED <<cancelled, claims, built, created, bpm>>

\* the select or the claim update raises: the store is unreachable
StoreError(p) ==
    /\ pc[p] \in {"select", "claim"}
    /\ Leave(p, AfterRaise(p))
    /\ Respond(p, ResponseError)
    /\ UNCHANGED <<jobs, clock, cancelled, claims, built, finals, created, bpm>>

FinalizeStoreErrorRequeues(p) ==
    /\ pc[p] = "sleep025"
    /\ p \in Workers => ~cancelled[p]
    /\ clock' = clock + 1
    /\ jobs' = [jobs EXCEPT ![job[p][1].id].status = "queued"]
    /\ Leave(p, AfterRaise(p))
    /\ Respond(p, ResponseError)
    /\ UNCHANGED <<cancelled, claims, built, finals, created, bpm>>

\* asyncio.sleep(0.25) returns and the finalize update raises
FinalizeStoreError(p) ==
    /\ pc[p] = "sleep025"
    /\ p \in Workers => ~cancelled[p]
    /\ clock' = clock + 1
    /\ Leave(p, AfterRaise(p))
    /\ Respond(p, ResponseError)
    /\ UNCHANGED <<jobs, cancelled, claims, built, finals, created, bpm>>

\* mix_worker_loop: asyncio.sleep(POLL_INTERVAL_SECONDS) returns, after a None
\* or in the except Exception branch; the next iteration starts
PollSleep(w) ==
    /\ pc[w] \in {"pollsleep", "backoff"}
    /\ ~cancelled[w]
    /\ pc' = [pc EXCEPT ![w] = "select"]
    /\ UNCHANGED <<jobs, clock, job_id, job, audit, cancelled, response,
                   claims, built, finals, created, bpm>>

\* _shutdown: task.cancel(), while the task is suspended in one of its sleeps
Shutdown(w) ==
    /\ pc[w] \in {"sleep025", "pollsleep", "backoff"}
    /\ ~cancelled[w]
    /\ cancelled' = [cancelled EXCEPT ![w] = TRUE]
    /\ UNCHANGED <<jobs, clock, pc, job_id, job, audit, response,
                   claims, built, finals, created, bpm>>

CancelledSwallowed(w) ==
    /\ pc[w] \in {"sleep025", "pollsleep", "backoff"}
    /\ cancelled[w]
    /\ cancelled' = [cancelled EXCEPT ![w] = FALSE]
    /\ Leave(w, "backoff")
    /\ UNCHANGED <<jobs, clock, response, claims, built, finals, created, bpm>>

\* the sleep the task is suspended in raises CancelledError: the loop ends
Cancelled(w) ==
    /\ pc[w] \in {"sleep025", "pollsleep", "backoff"}
    /\ cancelled[w]
    /\ Leave(w, "exited")
    /\ UNCHANGED <<jobs, clock, cancelled, response, claims, built, finals, created, bpm>>

Next ==
    \/ \E req \in Requests : create_mix_job(req)
    \/ \E req \in Requests : CreateStoreError(req)
    \/ \E c \in Callers, id \in TargetIds : process_next_mix_job(c, id)
    \/ \E p \in Procs : SelectNone(p)
    \/ \E p \in Procs : SelectRow(p)
    \/ \E p \in Procs : ClaimWon(p)
    \/ \E p \in Procs : ClaimWonAnalyzerRaises(p)
    \/ \E p \in Procs : ClaimLost(p)
    \/ \E p \in Procs : Finalize(p)
    \/ \E p \in Procs : StoreError(p)
    \/ \E p \in Procs : FinalizeStoreError(p)
    \/ \E w \in Workers : PollSleep(w)
    \/ \E w \in Workers : Shutdown(w)
    \/ \E w \in Workers : Cancelled(w)

Spec == Init /\ [][Next]_vars

\* ------------------------------------------------- src/api.py: the actions
\* while x > high: x /= 2.0
Halve ==
    /\ bpm.pc = "halving"
    /\ Above(X(bpm), high)
    /\ bpm' = [bpm EXCEPT !.k = @ + 1]
    /\ UNCHANGED jobVars

\* x > high is false: the first loop ends
HalveEnd ==
    /\ bpm.pc = "halving"
    /\ ~Above(X(bpm), high)
    /\ bpm' = [bpm EXCEPT !.pc = "doubling"]
    /\ UNCHANGED jobVars

\* while x < low: x *= 2.0
Double ==
    /\ bpm.pc = "doubling"
    /\ Below(X(bpm), low)
    /\ bpm' = [bpm EXCEPT !.n = 2 * @]
    /\ UNCHANGED jobVars

\* x < low is false: return x
DoubleEnd ==
    /\ bpm.pc = "doubling"
    /\ ~Below(X(bpm), low)
    /\ bpm' = [bpm EXCEPT !.pc = "done"]
    /\ UNCHANGED jobVars

NextBpm == Halve \/ HalveEnd \/ Double \/ DoubleEnd

\* the interpreter keeps executing normalize_bpm
SpecBpm == InitBpm /\ [][NextBpm]_vars /\ WF_vars(NextBpm)

\* one step of an invocation of process_one_mix_job that succeeds in all its
\* store calls, or of the loop around it
Step(p) ==
    \/ SelectNone(p)
    \/ SelectRow(p)
    \/ ClaimWon(p)
    \/ ClaimLost(p)
    \/ Finalize(p)
    \/ p \in Workers /\ PollSleep(p)

\* the service with a store that never fails, an analyzer that never raises
\* and no shutdown
NextLive ==
    \/ \E req \in Requests : create_mix_job(req)
    \/ \E c \in Callers, id \in TargetIds : process_next_mix_job(c, id)
    \/ \E p \in Procs : Step(p)

\* the event loop runs every task that is ready: the worker task and the
\* handler of a request in flight
SpecLive == Init /\ [][NextLive]_vars /\ \A p \in Procs : WF_vars(Step(p))

\* the event loop resumes a cancelled task: the CancelledError is delivered
SpecCancel == Init /\ [][Next]_vars /\ \A w \in Workers : WF_vars(Cancelled(w))

\* ---------------------------------------------------------------- claims
Terminal == {"completed", "failed"}
InFlight(p) == pc[p] \in {"claim", "sleep025"}
Jid(p) == job[p][1].id

\* C1: for every job, at most one conditional claim update changes the row,
\* however many invocations attempt it.
C1_AtMostOneClaim ==
    \A j \in DOMAIN jobs : claims[j] <= 1

\* C1 witness: a job is claimed while another invocation, which read it as
\* queued, is about to attempt its claim.
C1_Witness ==
    \E j \in DOMAIN jobs, p \in Procs :
        /\ claims[j] = 1 /\ jobs[j].status = "processing"
        /\ pc[p] = "claim" /\ Jid(p) = j

\* C2: every job has its audit built at most once and its 'completed' write
\* performed at most once, and no two invocations are between a won claim and
\* the finalize write for the same job.
C2_ProcessedOnce ==
    \A j \in DOMAIN jobs :
        /\ Len(built[j]) <= 1
        /\ finals[j] <= 1
        /\ Cardinality({p \in Procs : pc[p] = "sleep025" /\ Jid(p) = j}) <= 1

\* C2 witness: a job is completed while another invocation that had selected
\* it still holds its stale row.
C2_Witness ==
    \E j \in DOMAIN jobs, p \in Procs :
        /\ finals[j] = 1 /\ Len(built[j]) = 1
        /\ pc[p] = "claim" /\ Jid(p) = j

\* C3 as stated: an untargeted select takes the queued job of highest
\* priority, the earliest created_at among equals.
C3_SelectsHighestPriority ==
    [][\A p \in Procs :
         (pc[p] = "select" /\ pc'[p] = "claim" /\ ~Truthy(job_id[p])) =>
            \A k \in QueuedRows(jobs) :
               \/ job'[p][1].priority > jobs[k].priority
               \/ /\ job'[p][1].priority = jobs[k].priority
                  /\ job'[p][1].created_at <= jobs[k].created_at]_vars

\* C3 amended: an invocation without a target never holds a job while an
\* older MIX_INTELLIGENCE job is queued, whatever the priorities: queued jobs
\* are taken in created_at order.
C3_SelectsOldestFirst ==
    \A p \in Procs :
        (InFlight(p) /\ ~Truthy(job_id[p])) =>
            \A k \in QueuedRows(jobs) :
                job[p][1].created_at <= jobs[k].created_at

\* C3 witness: an untargeted invocation holds a job of priority 5 while a
\* younger job of priority 10 is queued.
C3_Witness ==
    \E p \in Procs, k \in DOMAIN jobs :
        /\ InFlight(p) /\ ~Truthy(job_id[p])
        /\ k \in QueuedRows(jobs)
        /\ job[p][1].priority = 5 /\ jobs[k].priority = 10
        /\ job[p][1].created_at < jobs[k].created_at

\* the row a select took is a row of the table, of type MIX_INTELLIGENCE and
\* queued at the read
TookQueuedRow(r) ==
    /\ r.id \in DOMAIN jobs /\ jobs[r.id] = r
    /\ r.type = "MIX_INTELLIGENCE" /\ r.status = "queued"

\* r is of least created_at among the queued MIX_INTELLIGENCE rows
IsOldestQueued(r) ==
    \A k \in DOMAIN jobs :
        (jobs[k].type = "MIX_INTELLIGENCE" /\ jobs[k].status = "queued")
            => r.created_at <= jobs[k].created_at

IsQueuedJob(id) ==
    /\ id \in DOMAIN jobs
    /\ jobs[id].type = "MIX_INTELLIGENCE"
    /\ jobs[id].status = "queued"

C5_TerminalIsFinal ==
    [][\A j \in DOMAIN jobs :
         jobs[j].status \in Terminal => jobs'[j].status = jobs[j].status]_vars

\* C5 witness: a job is completed while an invocation that selected it when
\* it was queued is about to attempt its claim.
C5_Witness ==
    \E j \in DOMAIN jobs, p \in Procs :
        /\ jobs[j].status = "completed"
        /\ pc[p] = "claim" /\ Jid(p) = j

\* the step in which p's invocation returns the finalized row
ReturnsRow(p) ==
    /\ pc[p] = "sleep025"
    /\ p \in Workers => pc'[p] = "select"
    /\ p \in Callers => pc'[p] = "idle" /\ response'[p].processed

\* C6: when an invocation runs to its end, reading the job shows status
\* completed, progress 100, stage done, the audit that invocation built, no
\* error message, and started_at before completed_at.
C6_SuccessfulCycle ==
    [][\A p \in Procs :
         ReturnsRow(p) =>
            LET res == get_mix_result(jobs', Jid(p)) IN
              /\ res.code = 200
              /\ res.job[1].status = "completed"
              /\ res.job[1].progress = 100
              /\ res.job[1].stage = "done"
              /\ res.job[1].audit_results = audit[p]
              /\ res.job[1].audit_results # Null
              /\ res.job[1].error_message = NoMessage
              /\ res.job[1].started_at # NoTime
              /\ res.job[1].started_at < res.job[1].completed_at]_vars

\* C6 witness: a process-next request got its processed job back, completed.
C6_Witness ==
    \E c \in Callers :
        /\ response[c].processed
        /\ get_mix_result(jobs, response[c].job[1].id).job[1].status = "completed"

\* the step in which p's claim update changes the row and the invocation
\* ends without reaching its sleep
RaisesAfterClaim(p) ==
    /\ pc[p] = "claim"
    /\ claims'[Jid(p)] = claims[Jid(p)] + 1
    /\ pc'[p] # "sleep025"

\* C7: when the analyzer step raises after a won claim, the job is persisted
\* as failed, with an error message and completed_at, and no audit.
C7_FailurePersisted ==
    [][\A p \in Procs :
         RaisesAfterClaim(p) =>
            /\ jobs'[Jid(p)].status = "failed"
            /\ jobs'[Jid(p)].error_message # NoMessage
            /\ jobs'[Jid(p)].completed_at # NoTime
            /\ jobs'[Jid(p)].audit_results = Null]_vars

\* C8: a worker loop that has won a claim does not exit before the finalize
\* write: when it exits, the job it claimed is no longer processing.
C8_CancelKeepsCycle ==
    [][\A w \in Workers :
         (pc[w] = "sleep025" /\ pc'[w] = "exited") =>
            jobs'[Jid(w)].status \in Terminal]_vars

\* C9: the worker loop ends only by cancellation; an exception out of
\* process_one_mix_job leads to the back-off sleep and from there to the next
\* select.
C9_LoopSurvivesErrors ==
    [][\A w \in Workers :
         /\ (pc[w] # "exited" /\ pc'[w] = "exited") => cancelled[w]
         /\ (pc[w] \in {"select", "claim", "sleep025"} /\ ~cancelled[w]) =>
               pc'[w] \in {"select", "claim", "sleep025", "pollsleep", "backoff"}
         /\ (pc[w] = "backoff" /\ ~cancelled[w] /\ pc'[w] # "backoff") =>
               pc'[w] = "select"]_vars

\* C9 witness: the loop is in its back-off sleep after an exception that left
\* a claimed job behind.
C9_Witness ==
    \E w \in Workers, j \in DOMAIN jobs :
        /\ pc[w] = "backoff" /\ ~cancelled[w]
        /\ jobs[j].status = "processing"
        /\ \A p \in Procs : ~(pc[p] = "sleep025" /\ Jid(p) = j)

\* C10: an invocation that does not win a claim (nothing selected, or the
\* claim update matches no row) writes no row, builds no audit, and does not
\* go back to selecting or claiming within the invocation.
C10_NoWinNoWrite ==
    [][\A p \in Procs :
         LET lost == pc[p] = "claim" /\ jobs[Jid(p)].status # "queued"
             none == pc[p] = "select" /\ pc'[p] \notin {"select", "claim"} IN
           ((lost \/ none) /\ pc'[p] # pc[p]) =>
              /\ jobs' = jobs /\ built' = built /\ finals' = finals
              /\ claims' = claims
              /\ audit'[p] = Null
              /\ pc'[p] \in {AfterNone(p), AfterRaise(p)}]_vars

\* C10 witness: the worker holds a stale row of a job that a process-next
\* request has claimed and is processing: its claim update will match no row.
C10_Witness ==
    \E c \in Callers, w \in Workers :
        /\ pc[c] = "sleep025" /\ pc[w] = "claim" /\ Jid(w) = Jid(c)
        /\ ~ClaimMatches(jobs, Jid(w))

\* the claim update of request c has matched no row and has not raised
LostRaceReturned(c) ==
    /\ pc[c] = "claim" /\ ~ClaimMatches(jobs, Jid(c))
    /\ pc'[c] = "idle" /\ response'[c].code # 500

\* C11 as stated: a process-next request whose claim update matches no row
\* gets a response that differs from the one given when no queued job was
\* found.
C11_LostRaceDistinct ==
    [][\A c \in Callers : LostRaceReturned(c) => response'[c] # ResponseNone]_vars

\* C11: a process-next request whose claim update matches no row gets the
\* very response given when no queued job was found (processed false, the same
\* message), and it is not an error.
C11_LostRaceReportedAsNoWork ==
    [][\A c \in Callers : LostRaceReturned(c) => response'[c] = ResponseNone]_vars

\* C11 witness: a process-next request is about to issue its claim update for
\* a job the worker has already claimed.
C11_Witness ==
    \E c \in Callers, w \in Workers :
        /\ pc[c] = "claim" /\ pc[w] = "sleep025" /\ Jid(c) = Jid(w)
        /\ jobs[Jid(c)].status = "processing"

\* row j is in 'processing' and no invocation is working on it
Stuck(j) ==
    /\ jobs[j].status = "processing"
    /\ \A p \in Procs : ~(pc[p] = "sleep025" /\ Jid(p) = j)

\* invocation p, not cancelled, leaves its sleep without having completed its
\* job: the finalize update raised
FinalizeRaised(p) ==
    /\ pc[p] = "sleep025" /\ pc'[p] # "sleep025"
    /\ p \in Workers => ~cancelled[p]
    /\ jobs'[Jid(p)].status # "completed"

\* C12: when the finalize update raises after a won claim, the row stays in
\* 'processing', the exception leaves process_one_mix_job (the loop backs off,
\* process-next answers 500), and from then on no step changes the row or
\* claims, audits or finalizes it again.
C12_FinalizeFailureSticks ==
    [][/\ \A p \in Procs :
            FinalizeRaised(p) =>
               /\ jobs'[Jid(p)] = jobs[Jid(p)]
               /\ jobs[Jid(p)].status = "processing"
               /\ pc'[p] = AfterRaise(p)
               /\ p \in Callers => response'[p] = ResponseError
       /\ \A j \in DOMAIN jobs :
            Stuck(j) =>
               /\ jobs'[j] = jobs[j]
               /\ claims'[j] = claims[j]
               /\ built'[j] = built[j]
               /\ finals'[j] = finals[j]]_vars

\* C12 witness: a job whose audit was built is stuck in 'processing' with no
\* cancellation involved, and a job enqueued after it has been completed.
C12_Witness ==
    \E j \in DOMAIN jobs, k \in DOMAIN jobs :
        /\ Stuck(j) /\ Len(built[j]) = 1
        /\ \A w \in Workers : ~cancelled[w]
        /\ jobs[k].status = "completed"
        /\ jobs[k].created_at > jobs[j].created_at

\* C13: in every state every row has a non-null audit_results exactly when
\* its status is 'completed' and progress 100 exactly when its status is
\* 'completed'; progress is 0 in 'queued' and 5 in 'processing'; and no step
\* lowers the progress of a row.
C13_AuditAndProgress ==
    /\ [](\A j \in DOMAIN jobs :
            /\ jobs[j].audit_results # Null <=> jobs[j].status = "completed"
            /\ jobs[j].progress = 100 <=> jobs[j].status = "completed"
            /\ jobs[j].status = "queued" => jobs[j].progress = 0
            /\ jobs[j].status = "processing" => jobs[j].progress = 5)
    /\ [][\A j \in DOMAIN jobs : jobs'[j].progress >= jobs[j].progress]_vars

\* C13 witness: one job is completed with its audit and another one is being
\* processed.
C13_Witness ==
    \E j \in JobIds \cap DOMAIN jobs, k \in JobIds \cap DOMAIN jobs :
        /\ jobs[j].status = "completed" /\ jobs[j].audit_results # Null
        /\ jobs[j].progress = 100
        /\ jobs[k].status = "processing" /\ jobs[k].progress = 5

\* C14: in every state every row has a non-null started_at exactly when its
\* status is 'processing', 'completed' or 'failed', and a non-null
\* completed_at exactly when its status is 'completed' or 'failed'; a
\* timestamp that is set never changes, and no row gets a second claim write
\* or a second finalize write.
C14_Timestamps ==
    /\ [](\A j \in DOMAIN jobs :
            /\ jobs[j].started_at # NoTime
                  <=> jobs[j].status \in {"processing", "completed", "failed"}
            /\ jobs[j].completed_at # NoTime
                  <=> jobs[j].status \in {"completed", "failed"}
            /\ claims[j] <= 1 /\ finals[j] <= 1)
    /\ [][\A j \in DOMAIN jobs :
            /\ jobs[j].started_at # NoTime
                  => jobs'[j].started_at = jobs[j].started_at
            /\ jobs[j].completed_at # NoTime
                  => jobs'[j].completed_at = jobs[j].completed_at]_vars

\* C14 witness: a completed job carries both timestamps, the later one after
\* the earlier one, while another job is claimed and carries only started_at.
C14_Witness ==
    \E j \in JobIds \cap DOMAIN jobs, k \in JobIds \cap DOMAIN jobs :
        /\ jobs[j].status = "completed"
        /\ jobs[j].started_at # NoTime
        /\ jobs[j].completed_at > jobs[j].started_at
        /\ jobs[k].status = "processing"
        /\ jobs[k].started_at # NoTime /\ jobs[k].completed_at = NoTime

\* the request of the latest create call breaks the limits C15 names
BadSizeOrDuration ==
    /\ created.request # Null
    /\ \/ created.request[1].size_bytes = 0
       \/ created.request[1].duration_seconds = 0
       \/ created.request[1].duration_seconds > 600

\* C15: a create request with size_bytes = 0, duration_seconds = 0 or
\* duration_seconds > 600 is answered with the validation error 422, and the
\* step that answers it leaves the table as it was; so no row ever carries
\* such values.
C15_InvalidRejected ==
    /\ [](BadSizeOrDuration => created.code = 422 /\ created.inserted = Null)
    /\ [][(created' # created /\ BadSizeOrDuration') => jobs' = jobs]_vars
    /\ [](\A j \in JobIds \cap DOMAIN jobs :
            /\ jobs[j].size_bytes >= 1
            /\ jobs[j].duration_seconds >= 1 /\ jobs[j].duration_seconds <= 600)

\* C15 witness: a request with duration_seconds = 601 has just been rejected
\* while the table holds a job and has room for another.
C15_Witness ==
    /\ created.code = 422
    /\ created.request[1].size_bytes = 1
    /\ created.request[1].duration_seconds = 601
    /\ Cardinality(DOMAIN jobs \cap JobIds) = 1

\* the step answers a create request that is within the limits of
\* MixJobRequest, and the insert has not failed
ValidEnqueue ==
    /\ created' # created
    /\ created'.request[1].size_bytes >= 1
    /\ created'.request[1].duration_seconds \in 1..600
    /\ created'.request[1].priority \in 0..100
    /\ created'.code # 500

\* C16: a valid enqueue adds exactly one row, under an id no row had, and
\* changes no other row; the new row is 'queued' with progress 0, stage
\* 'created' and null started_at, completed_at, audit_results and
\* error_message, and carries the request's values; get_mix_result of that id
\* right after the insert returns it, 'queued' with a null audit_results, and
\* get_mix_result of an id no row has answers 404.
C16_EnqueueThenGet ==
    [][ValidEnqueue =>
         /\ created'.code = 200
         /\ \E j \in JobIds \ DOMAIN jobs :
              /\ DOMAIN jobs' = DOMAIN jobs \cup {j}
              /\ \A k \in DOMAIN jobs : jobs'[k] = jobs[k]
              /\ created'.inserted = <<jobs'[j]>>
              /\ jobs'[j].id = j
              /\ jobs'[j].type = "MIX_INTELLIGENCE"
              /\ jobs'[j].status = "queued"
              /\ jobs'[j].progress = 0
              /\ jobs'[j].stage = "created"
              /\ jobs'[j].started_at = NoTime
              /\ jobs'[j].completed_at = NoTime
              /\ jobs'[j].audit_results = Null
              /\ jobs'[j].error_message = NoMessage
              /\ jobs'[j].priority = created'.request[1].priority
              /\ jobs'[j].context = created'.request[1].context
              /\ get_mix_result(jobs', j).code = 200
              /\ get_mix_result(jobs', j).job[1].status = "queued"
              /\ get_mix_result(jobs', j).job[1].audit_results = Null
         /\ \A u \in (JobIds \cup {EmptyId}) \ DOMAIN jobs' :
              get_mix_result(jobs', u) = [code |-> 404, job |-> Null]]_vars

\* C16 witness: a second job has just been inserted and not been claimed,
\* next to a job that has been completed; the empty id names no row.
C16_Witness ==
    /\ created.code = 200
    /\ LET j == created.inserted[1].id IN
         /\ jobs[j] = created.inserted[1]
         /\ get_mix_result(jobs, j).job[1].status = "queued"
         /\ \E k \in DOMAIN jobs : k # j /\ jobs[k].status = "completed"
    /\ get_mix_result(jobs, EmptyId).code = 404

\* the worker's call of process_one_mix_job finds no work in this step: its
\* select found no row, or its claim update matched none (it returns None,
\* or the store raises and the loop sleeps in its handler)
ReturnsNone(w) ==
    /\ \/ pc[w] = "select" /\ SelectRows(jobs, job_id[w]) = {}
       \/ pc[w] = "claim" /\ jobs[Jid(w)].status # "queued"
    /\ pc'[w] # pc[w]
    /\ jobs' = jobs

\* the worker's call of process_one_mix_job returns the completed row in this
\* step
ReturnsProcessed(w) ==
    /\ pc[w] = "sleep025" /\ pc'[w] # "sleep025"
    /\ jobs'[Jid(w)].status = "completed"

\* C17: when an iteration of mix_worker_loop gets None, the loop sleeps
\* before it selects again, and the next thing it does after the sleep is the
\* select; when an iteration has processed a job, the loop goes straight to
\* the next select without sleeping.
C17_SleepOnlyWhenIdle ==
    [][\A w \in Workers :
         /\ ReturnsNone(w) => pc'[w] \in {"pollsleep", "backoff"}
         /\ (pc[w] = "pollsleep" /\ pc'[w] # "pollsleep")
               => pc'[w] \in {"select", "exited"}
         /\ ReturnsProcessed(w) => pc'[w] = "select"]_vars

\* C17 witness: the worker has completed a job, has then found the queue
\* empty, and is in its poll sleep.
C17_Witness ==
    \E w \in Workers, j \in JobIds \cap DOMAIN jobs :
        /\ pc[w] = "pollsleep" /\ ~cancelled[w]
        /\ finals[j] = 1 /\ jobs[j].status = "completed"
        /\ QueuedRows(jobs) = {}
        /\ \A c \in Callers : response[c] = NoResponse

\* C18: once task.cancel() has been called on the worker task, the loop
\* eventually ends, in the sleep it was suspended in; and a loop that has
\* ended stays ended, holds no job, and no row is claimed, audited or
\* finalized by it afterwards.
C18_CancelEndsLoop ==
    /\ \A w \in Workers : cancelled[w] ~> pc[w] = "exited"
    /\ [][\A w \in Workers :
            /\ (cancelled[w] /\ pc'[w] # pc[w])
                  => pc'[w] = "exited" /\ jobs' = jobs
            /\ pc[w] = "exited"
                  => /\ pc'[w] = "exited" /\ job'[w] = Null /\ audit'[w] = Null
                     /\ (\A c \in Callers : pc'[c] = pc[c])
                           => /\ claims' = claims /\ built' = built
                              /\ finals' = finals]_vars

\* C18 witness: the loop was cancelled and has ended while a job it could
\* have taken is queued.
C18_Witness ==
    \E w \in Workers :
        /\ cancelled[w] /\ pc[w] = "exited"
        /\ QueuedRows(jobs) # {}

C20_NormalizeBpmReturnsInRange ==
    /\ <>(bpm.pc = "done")
    /\ [](bpm.pc = "done" =>
            /\ ~Below(X(bpm), low) /\ ~Above(X(bpm), high)
            /\ \E d \in 0..bpm.n : bpm.n = round_to(bpm.exact, step) * (2 ^ d))

====
